---------------------------- MODULE Spec2Model ----------------------------
(***************************************************************************)
(* Model of streamlit_app.py: the EXCHANGES catalog, the sidebar           *)
(* selection, fetch_historical_data, normalize_data, calculate_correlation *)
(* and the script body main(), which Streamlit re-executes from the top on *)
(* every widget change.                                                    *)
(*                                                                         *)
(* Numbers.  Prices and everything computed from them are floats in the    *)
(* program.  They are modelled as exact extended rationals <<n, d>>:       *)
(*   d > 0   the rational n/d in lowest terms,                             *)
(*   <<0,0>> NaN,  <<1,0>> +inf,  <<-1,0>> -inf,                           *)
(* with the IEEE rules for division by zero and for NaN; rounding error of *)
(* the binary representation is not modelled.                              *)
(***************************************************************************)
EXTENDS Integers, Sequences, FiniteSets

\* ------------------------------------------------------------- bounds
\* Trading days a provider series may be indexed by: 1..MaxDay.
MaxDay == 3
\* The same, where the whole sidebar is explored with it: 1..MaxQuoteDay.
MaxQuoteDay == 2
\* Calendar dates the two date pickers range over: 1..MaxDate.
MaxDate == 2

Days == 1..MaxDay
Dates == 1..MaxDate

\* ------------------------------------------------- float arithmetic
Abs(x) == IF x < 0 THEN -x ELSE x
Sgn(x) == IF x < 0 THEN -1 ELSE IF x > 0 THEN 1 ELSE 0

RECURSIVE GCD(_, _)
GCD(a, b) == IF b = 0 THEN a ELSE GCD(b, a % b)

NaN == <<0, 0>>
Inf(s) == <<s, 0>>
IsNaN(v) == v = NaN
IsFinite(v) == v[2] > 0

\* the float n/d, d # 0, in lowest terms with a positive denominator
Frac(n, d) ==
    LET g == GCD(Abs(n), Abs(d))
    IN  <<(Sgn(d) * n) \div g, Abs(d) \div g>>

Num(k) == <<k, 1>>

\* a / b
FDiv(a, b) ==
    IF IsNaN(a) \/ IsNaN(b) THEN NaN
    ELSE IF IsFinite(a) /\ IsFinite(b)
         THEN IF b[1] = 0
              THEN (IF a[1] = 0 THEN NaN ELSE Inf(Sgn(a[1])))
              ELSE LET g == GCD(Abs(a[1]), Abs(b[1]))
                       h == GCD(a[2], b[2])
                   IN  Frac((a[1] \div g) * (b[2] \div h),
                            (a[2] \div h) * (b[1] \div g))
    ELSE IF IsFinite(a) THEN Num(0)
    ELSE IF IsFinite(b) THEN Inf(a[1] * (IF b[1] < 0 THEN -1 ELSE 1))
    ELSE NaN

\* a * b
FMul(a, b) ==
    IF IsNaN(a) \/ IsNaN(b) THEN NaN
    ELSE IF IsFinite(a) /\ IsFinite(b)
         THEN LET g == GCD(Abs(a[1]), b[2])
                  h == GCD(Abs(b[1]), a[2])
              IN  Frac((a[1] \div g) * (b[1] \div h),
                       (a[2] \div h) * (b[2] \div g))
    ELSE IF Sgn(a[1]) * Sgn(b[1]) = 0 THEN NaN
    ELSE Inf(Sgn(a[1]) * Sgn(b[1]))

\* a - b
FSub(a, b) ==
    IF IsNaN(a) \/ IsNaN(b) THEN NaN
    ELSE IF IsFinite(a) /\ IsFinite(b)
         THEN LET g == GCD(a[2], b[2])
              IN  Frac(a[1] * (b[2] \div g) - b[1] * (a[2] \div g),
                       a[2] * (b[2] \div g))
    ELSE IF IsFinite(b) THEN a
    ELSE IF IsFinite(a) THEN Inf(-b[1])
    ELSE IF a[1] = b[1] THEN NaN ELSE a

\* a + b
FAdd(a, b) == FSub(a, FSub(Num(0), b))

RECURSIVE LessFrac(_, _, _, _)
\* n1/d1 < n2/d2 for n1, n2 >= 0 and d1, d2 > 0, by integer parts and
\* then the reciprocals of the fractional parts
LessFrac(n1, d1, n2, d2) ==
    LET q1 == n1 \div d1
        q2 == n2 \div d2
        r1 == n1 % d1
        r2 == n2 % d2
    IN  IF q1 # q2 THEN q1 < q2
        ELSE IF r2 = 0 THEN FALSE
        ELSE IF r1 = 0 THEN TRUE
        ELSE LessFrac(d2, r2, d1, r1)

\* a < b, a and b finite and not negative
FLess(a, b) == LessFrac(a[1], a[2], b[1], b[2])

\* ------------------------------------------------------------ series
\* A pandas Series with a date index: a function from the dates it has
\* to floats; the index is ascending, so position 0 is the least date.
EmptySeries == <<>>

Index(s) == DOMAIN s

MinOf(S) == CHOOSE x \in S : \A y \in S : x <= y
MaxOf(S) == CHOOSE x \in S : \A y \in S : y <= x

\* every series indexed by a subset of days with values in vals
SeriesOver(days, vals) ==
    UNION {[ix -> vals] : ix \in SUBSET days}

\* series.iloc[0] and series.iloc[-1] of a series with at least one row;
\* on a series with no row pandas raises IndexError (ilocRaises)
ilocRaises(s) == Index(s) = {}
ilocFirst(s) == s[MinOf(Index(s))]
ilocLast(s) == s[MaxOf(Index(s))]

RECURSIVE FSum(_, _)
\* the sum of f over the finite set S
FSum(f, S) ==
    IF S = {} THEN Num(0)
    ELSE LET x == CHOOSE y \in S : TRUE
         IN  FAdd(f[x], FSum(f, S \ {x}))

\* ---------------------------------------------------------- analytics
\* normalize_data dividing by the last price instead of the first
normalize_by_last(series) ==
    [d \in Index(series) |->
        FSub(FMul(FDiv(series[d], ilocLast(series)), Num(100)), Num(100))]

\* series / series.iloc[0] * 100 - 100, element by element, same index
normalize_data(series) ==
    [d \in Index(series) |->
        FSub(FMul(FDiv(series[d], ilocFirst(series)), Num(100)), Num(100))]

\* pd.concat([series1, series2], axis=1): outer join on the index, a
\* date missing from one side holds NaN there
concat(series1, series2) ==
    [d \in Index(series1) \cup Index(series2) |->
        <<IF d \in Index(series1) THEN series1[d] ELSE NaN,
          IF d \in Index(series2) THEN series2[d] ELSE NaN>>]

\* DataFrame.dropna(): the rows without a NaN
dropna(frame) ==
    [d \in {e \in DOMAIN frame : ~IsNaN(frame[e][1]) /\ ~IsNaN(frame[e][2])}
        |-> frame[d]]

\* A correlation coefficient: sgn * sqrt(sq) with sq an exact rational in
\* [0, 1], or NaN.
CorrNaN == [sgn |-> 0, sq |-> NaN]
Corr(s, q) == [sgn |-> s, sq |-> q]

\* the regression slope cov / ssx in place of the coefficient
slope(frame, i, j) ==
    LET rows == {d \in DOMAIN frame :
                    IsFinite(frame[d][i]) /\ IsFinite(frame[d][j])}
        nobs == Cardinality(rows)
        x    == [d \in rows |-> frame[d][i]]
        y    == [d \in rows |-> frame[d][j]]
        mx   == FDiv(FSum(x, rows), Num(nobs))
        my   == FDiv(FSum(y, rows), Num(nobs))
        ssx  == FSum([d \in rows |-> FMul(FSub(x[d], mx), FSub(x[d], mx))], rows)
        cov  == FSum([d \in rows |-> FMul(FSub(x[d], mx), FSub(y[d], my))], rows)
    IN  IF nobs < 1 \/ ssx[1] = 0 THEN CorrNaN
        ELSE Corr(Sgn(cov[1]), FMul(FDiv(cov, ssx), FDiv(cov, ssx)))

\* DataFrame.corr().iloc[i, j] for two columns i, j of a frame: Pearson
\* over the rows where both are finite, min_periods = 1, NaN when the
\* divisor sqrt(ssx * ssy) is zero; the coefficient cov / sqrt(ssx * ssy)
\* is kept as its sign and its square (cov / ssx) * (cov / ssy)
corr(frame, i, j) ==
    LET rows == {d \in DOMAIN frame :
                    IsFinite(frame[d][i]) /\ IsFinite(frame[d][j])}
        nobs == Cardinality(rows)
        x    == [d \in rows |-> frame[d][i]]
        y    == [d \in rows |-> frame[d][j]]
        mx   == FDiv(FSum(x, rows), Num(nobs))
        my   == FDiv(FSum(y, rows), Num(nobs))
        ssx  == FSum([d \in rows |-> FMul(FSub(x[d], mx), FSub(x[d], mx))], rows)
        ssy  == FSum([d \in rows |-> FMul(FSub(y[d], my), FSub(y[d], my))], rows)
        cov  == FSum([d \in rows |-> FMul(FSub(x[d], mx), FSub(y[d], my))], rows)
    IN  IF nobs < 1 THEN CorrNaN
        ELSE IF ssx[1] = 0 \/ ssy[1] = 0 THEN CorrNaN
        ELSE Corr(Sgn(cov[1]), FMul(FDiv(cov, ssx), FDiv(cov, ssy)))

\* calculate_correlation with fillna(0) where the code has dropna()
correlation_fillna(series1, series2) ==
    LET frame == concat(series1, series2)
        Fill(v) == IF IsNaN(v) THEN Num(0) ELSE v
    IN  corr([d \in DOMAIN frame |-> <<Fill(frame[d][1]), Fill(frame[d][2])>>],
             1, 2)

\* merged = pd.concat([series1, series2], axis=1).dropna()
\* merged.corr().iloc[0, 1]
calculate_correlation(series1, series2) ==
    corr(dropna(concat(series1, series2)), 1, 2)

\* ------------------------------------------------------------ catalog
\* list(EXCHANGES.keys()) and list(EXCHANGES[region].keys()), in the
\* order the dict literal gives them
RegionKeys == <<"US", "India", "Europe">>
AssetTypeKeys(region) == <<"stocks", "indices", "etfs">>

EXCHANGES ==
    [r \in {"US", "India", "Europe"} |->
        CASE r = "US" ->
                [stocks  |-> <<"SPY", "QQQ", "DIA">>,
                 indices |-> <<"^GSPC", "^DJI", "^IXIC">>,
                 etfs    |-> <<"VTI", "VEA", "VWO">>]
          [] r = "India" ->
                [stocks  |-> <<"INFY.NS", "TCS.NS", "RELIANCE.NS">>,
                 indices |-> <<"^NSEI", "^BSESN">>,
                 etfs    |-> <<"NIFTYBEES.NS", "CPSEETF.NS">>]
          [] r = "Europe" ->
                [stocks  |-> <<"SAP.DE", "NESN.SW", "ABI.BR">>,
                 indices |-> <<"^STOXX50E", "^N100">>,
                 etfs    |-> <<"EZU", "VGK">>]]

Range(seq) == {seq[i] : i \in 1..Len(seq)}

\* a selectbox that keeps a choice its options no longer hold
selectbox_stale(options, chosen) == chosen

\* st.sidebar.selectbox(label, options): the option the user chose in this
\* widget if the widget still offers it, else the first option (a widget
\* whose option list changed is a new widget and starts at index 0)
selectbox(options, chosen) ==
    IF chosen \in Range(options) THEN chosen ELSE options[1]

\* ----------------------------------------------------------- provider
\* What yf.download(ticker, start=..., end=...) can do: raise, or return a
\* frame; a frame has a set of columns and, under 'Adj Close', a series.
AdjClose == "Adj Close"

Raises == [kind |-> "raises"]
Frame(columns, series) ==
    [kind |-> "frame", columns |-> columns, adj |-> series]

\* the outcomes whose 'Adj Close' column, if any, is one of series
OutcomesWith(series) ==
    {Raises, Frame({"Close"}, EmptySeries)}
        \cup {Frame({"Close", AdjClose}, s) : s \in series}

\* quotes of a flat market over a few days, and of a market that moves
\* (or quotes 0) over more days
FlatOutcomes == OutcomesWith(SeriesOver(1..MaxQuoteDay, {Num(100)}))
ProviderOutcomes ==
    OutcomesWith(SeriesOver(Days, {Num(0), Num(100), Num(110)}))

\* ----------------------------------------------------------- fetcher
None == [kind |-> "None"]
Series(s) == [kind |-> "Series", values |-> s]

\* fetch_historical_data catching the provider's exception only: the
\* KeyError of a frame without the column leaves the function
fetch_narrow_except(ticker, outcome) ==
    IF outcome.kind = "raises"
    THEN [raised |-> FALSE, ret |-> None, error |-> <<ticker>>]
    ELSE IF AdjClose \notin outcome.columns
    THEN [raised |-> TRUE, ret |-> None, error |-> <<>>]
    ELSE [raised |-> FALSE, ret |-> Series(outcome.adj), error |-> <<>>]

\* fetch_historical_data(ticker, ...), given what yf.download did:
\*   raised  whether an exception leaves the function,
\*   ret     the value returned,
\*   error   the st.error messages issued (the tickers they name)
fetch_historical_data(ticker, outcome) ==
    IF outcome.kind = "raises" \/ AdjClose \notin outcome.columns
    THEN [raised |-> FALSE, ret |-> None, error |-> <<ticker>>]
    ELSE [raised |-> FALSE, ret |-> Series(outcome.adj), error |-> <<>>]

\* ------------------------------------------------------- presentation
\* f'{x:.2f}' of a float: the hundredths it rounds to (half to even), or
\* the text Python prints for a non-finite float
Formatted(h) == [kind |-> "number", hundredths |-> h]
FormattedText(s) == [kind |-> "text", text |-> s]

format2f(v) ==
    IF IsNaN(v) THEN FormattedText("nan")
    ELSE IF ~IsFinite(v) THEN FormattedText(IF v[1] > 0 THEN "inf" ELSE "-inf")
    ELSE LET n == 100 * v[1]
             q == n \div v[2]
             r == n - q * v[2]
         IN  Formatted(IF 2 * r < v[2] THEN q
                       ELSE IF 2 * r > v[2] THEN q + 1
                       ELSE IF q % 2 = 0 THEN q ELSE q + 1)

\* f'{correlation:.2f}' of a coefficient sgn * sqrt(sq)
format2fCorr(c) ==
    IF IsNaN(c.sq) THEN FormattedText("nan")
    ELSE LET Half(k) == Frac(k * k, 40000)   \* (k / 200) squared
             h == CHOOSE k \in 0..100 :
                    /\ FLess(c.sq, Half(2 * k + 1))
                    /\ k = 0 \/ ~FLess(c.sq, Half(2 * k - 1))
         IN  Formatted(c.sgn * h)

\* the go.Figure with one 'lines' trace per series
plot_performance_comparison(d1, d2, label1, label2) ==
    [title  |-> "Performance Comparison",
     traces |-> <<[x |-> Index(d1), y |-> d1, name |-> label1],
                  [x |-> Index(d2), y |-> d2, name |-> label2]>>]

plotly_chart(fig) == [element |-> "plotly_chart", body |-> fig]
metric(label, value) == [element |-> "metric", label |-> label, body |-> value]
subheader(text) == [element |-> "subheader", body |-> text]

\* -------------------------------------------------------------- state
VARIABLES
    region1, asset_type1, asset1,   \* the first three selectboxes
    region2, asset_type2, asset2,   \* the second three selectboxes
    start_date, end_date,           \* the two date inputs
    pc,                             \* where the script run of main() is
    data1, data2,                   \* main's locals; Unset before assigned
    norm_data1, norm_data2,
    correlation,
    calls,                          \* yf.download calls of this run, in order
    replies,                        \* what each of those calls did
    errors,                         \* st.error messages of this run
    shown                           \* elements rendered in the main area

selection == <<region1, asset_type1, asset1, region2, asset_type2, asset2,
               start_date, end_date>>
locals == <<data1, data2, norm_data1, norm_data2, correlation>>
page == <<calls, replies, errors, shown>>
vars == <<selection, pc, locals, page>>

Unset == [kind |-> "unset"]

\* A script run starts at the top of main(): fresh locals, an empty page.
StartRun ==
    /\ pc' = "fetch1"
    /\ data1' = Unset /\ data2' = Unset
    /\ norm_data1' = Unset /\ norm_data2' = Unset
    /\ correlation' = Unset
    /\ calls' = <<>> /\ replies' = <<>> /\ errors' = <<>> /\ shown' = <<>>

\* Every selectbox at its first option, the date inputs at their defaults
\* (a year ago, today).
DefaultSelection ==
    /\ region1 = RegionKeys[1]
    /\ asset_type1 = AssetTypeKeys(region1)[1]
    /\ asset1 = EXCHANGES[region1][asset_type1][1]
    /\ region2 = RegionKeys[1]
    /\ asset_type2 = AssetTypeKeys(region2)[1]
    /\ asset2 = EXCHANGES[region2][asset_type2][1]
    /\ start_date = MaxDate - 1
    /\ end_date = MaxDate

\* The first script run, about to fetch.
Init ==
    /\ DefaultSelection
    /\ pc = "fetch1"
    /\ data1 = Unset /\ data2 = Unset
    /\ norm_data1 = Unset /\ norm_data2 = Unset
    /\ correlation = Unset
    /\ calls = <<>> /\ replies = <<>> /\ errors = <<>> /\ shown = <<>>

RunOver == pc \in {"done", "crashed"}

\* ------------------------------------------------- sidebar (lines 81-91)
\* The user changes one widget; Streamlit re-executes main(), whose
\* selectboxes are filled from EXCHANGES top to bottom.
Sidebar1(r, t, a) ==
    /\ region1' = selectbox(RegionKeys, r)
    /\ asset_type1' = selectbox(AssetTypeKeys(region1'), t)
    /\ asset1' = selectbox(EXCHANGES[region1'][asset_type1'], a)

Sidebar2(r, t, a) ==
    /\ region2' = selectbox(RegionKeys, r)
    /\ asset_type2' = selectbox(AssetTypeKeys(region2'), t)
    /\ asset2' = selectbox(EXCHANGES[region2'][asset_type2'], a)

SelectRegion1 ==
    /\ RunOver
    /\ \E r \in Range(RegionKeys) : Sidebar1(r, asset_type1, asset1)
    /\ UNCHANGED <<region2, asset_type2, asset2, start_date, end_date>>
    /\ StartRun

SelectAssetType1 ==
    /\ RunOver
    /\ \E t \in Range(AssetTypeKeys(region1)) : Sidebar1(region1, t, asset1)
    /\ UNCHANGED <<region2, asset_type2, asset2, start_date, end_date>>
    /\ StartRun

SelectAsset1 ==
    /\ RunOver
    /\ \E a \in Range(EXCHANGES[region1][asset_type1]) :
            Sidebar1(region1, asset_type1, a)
    /\ UNCHANGED <<region2, asset_type2, asset2, start_date, end_date>>
    /\ StartRun

SelectRegion2 ==
    /\ RunOver
    /\ \E r \in Range(RegionKeys) : Sidebar2(r, asset_type2, asset2)
    /\ UNCHANGED <<region1, asset_type1, asset1, start_date, end_date>>
    /\ StartRun

SelectAssetType2 ==
    /\ RunOver
    /\ \E t \in Range(AssetTypeKeys(region2)) : Sidebar2(region2, t, asset2)
    /\ UNCHANGED <<region1, asset_type1, asset1, start_date, end_date>>
    /\ StartRun

SelectAsset2 ==
    /\ RunOver
    /\ \E a \in Range(EXCHANGES[region2][asset_type2]) :
            Sidebar2(region2, asset_type2, a)
    /\ UNCHANGED <<region1, asset_type1, asset1, start_date, end_date>>
    /\ StartRun

SetStartDate ==
    /\ RunOver
    /\ \E d \in Dates : start_date' = d
    /\ UNCHANGED <<region1, asset_type1, asset1, region2, asset_type2, asset2,
                   end_date>>
    /\ StartRun

SetEndDate ==
    /\ RunOver
    /\ \E d \in Dates : end_date' = d
    /\ UNCHANGED <<region1, asset_type1, asset1, region2, asset_type2, asset2,
                   start_date>>
    /\ StartRun

\* --------------------------------------------- the run (lines 93-120)
\* data1 = fetch_historical_data(asset1, start_date, end_date)
Fetch1(outcomes) ==
    /\ pc = "fetch1"
    /\ \E outcome \in outcomes :
        LET f == fetch_historical_data(asset1, outcome)
        IN  /\ calls' = Append(calls, <<asset1, start_date, end_date>>)
            /\ replies' = Append(replies, outcome)
            /\ errors' = errors \o f.error
            /\ IF f.raised
               THEN pc' = "crashed" /\ data1' = data1
               ELSE pc' = "fetch2" /\ data1' = f.ret
    /\ UNCHANGED <<selection, data2, norm_data1, norm_data2, correlation, shown>>

\* the second fetch answered from the first when the tickers agree
Fetch2Reuse(outcomes) ==
    /\ pc = "fetch2"
    /\ IF asset2 = asset1
       THEN /\ data2' = data1 /\ pc' = "test"
            /\ UNCHANGED <<calls, replies, errors>>
       ELSE \E outcome \in outcomes :
            LET f == fetch_historical_data(asset2, outcome)
            IN  /\ calls' = Append(calls, <<asset2, start_date, end_date>>)
                /\ replies' = Append(replies, outcome)
                /\ errors' = errors \o f.error
                /\ pc' = "test" /\ data2' = f.ret
    /\ UNCHANGED <<selection, data1, norm_data1, norm_data2, correlation, shown>>

\* data2 = fetch_historical_data(asset2, start_date, end_date)
Fetch2(outcomes) ==
    /\ pc = "fetch2"
    /\ \E outcome \in outcomes :
        LET f == fetch_historical_data(asset2, outcome)
        IN  /\ calls' = Append(calls, <<asset2, start_date, end_date>>)
            /\ replies' = Append(replies, outcome)
            /\ errors' = errors \o f.error
            /\ IF f.raised
               THEN pc' = "crashed" /\ data2' = data2
               ELSE pc' = "test" /\ data2' = f.ret
    /\ UNCHANGED <<selection, data1, norm_data1, norm_data2, correlation, shown>>

\* if data1 is not None and data2 is not None: ... (the false branch)
Skip ==
    /\ pc = "test"
    /\ ~(data1 # None /\ data2 # None)
    /\ pc' = "done"
    /\ UNCHANGED <<selection, locals, page>>

\* norm_data1 = normalize_data(data1); norm_data2 = normalize_data(data2)
\* An IndexError from series.iloc[0] is caught nowhere: the run ends there.
Normalize ==
    /\ pc = "test"
    /\ data1 # None /\ data2 # None
    /\ IF ilocRaises(data1.values)
       THEN pc' = "crashed" /\ UNCHANGED <<norm_data1, norm_data2>>
       ELSE /\ norm_data1' = Series(normalize_data(data1.values))
            /\ IF ilocRaises(data2.values)
               THEN pc' = "crashed" /\ UNCHANGED norm_data2
               ELSE /\ norm_data2' = Series(normalize_data(data2.values))
                    /\ pc' = "correlate"
    /\ UNCHANGED <<selection, data1, data2, correlation, page>>

\* correlation = calculate_correlation(norm_data1, norm_data2)
Correlate ==
    /\ pc = "correlate"
    /\ correlation' = calculate_correlation(norm_data1.values, norm_data2.values)
    /\ pc' = "render"
    /\ UNCHANGED <<selection, data1, data2, norm_data1, norm_data2, page>>

\* the chart, the correlation metric, the subheader, the two returns
Render ==
    /\ pc = "render"
    /\ shown' = shown \o
        <<plotly_chart(plot_performance_comparison(
              norm_data1.values, norm_data2.values, asset1, asset2)),
          metric("Correlation Coefficient", format2fCorr(correlation)),
          subheader("Performance Insights"),
          metric(<<asset1, "Total Return">>, format2f(ilocLast(norm_data1.values))),
          metric(<<asset2, "Total Return">>, format2f(ilocLast(norm_data2.values)))>>
    /\ pc' = "done"
    /\ UNCHANGED <<selection, locals, calls, replies, errors>>

\* Streamlit re-executes the script with the selection as it is.
Rerun ==
    /\ RunOver
    /\ UNCHANGED selection
    /\ StartRun

\* The whole application: every sidebar widget, a flat market.
Next ==
    \/ SelectRegion1 \/ SelectAssetType1 \/ SelectAsset1
    \/ SelectRegion2 \/ SelectAssetType2 \/ SelectAsset2
    \/ SetStartDate \/ SetEndDate \/ Rerun
    \/ Fetch1(FlatOutcomes) \/ Fetch2(FlatOutcomes)
    \/ Skip \/ Normalize \/ Correlate \/ Render

Spec == Init /\ [][Next]_vars

\* The script run over and over on the default selection, every market.
NextRun ==
    \/ Rerun
    \/ Fetch1(ProviderOutcomes) \/ Fetch2(ProviderOutcomes)
    \/ Skip \/ Normalize \/ Correlate \/ Render

SpecRun == Init /\ [][NextRun]_vars

\* normalize_data on its own, applied to any price series of up to MaxDay
\* days quoting 0, 100, 110 or 121.
InitNormalize ==
    /\ DefaultSelection
    /\ pc = "normalize_data"
    /\ data1 \in {Series(s) :
            s \in SeriesOver(Days, {Num(0), Num(100), Num(110), Num(121)})}
    /\ data2 = Unset
    /\ norm_data1 = Unset /\ norm_data2 = Unset
    /\ correlation = Unset
    /\ calls = <<>> /\ replies = <<>> /\ errors = <<>> /\ shown = <<>>

NormalizeData ==
    /\ pc = "normalize_data"
    /\ IF ilocRaises(data1.values)
       THEN pc' = "crashed" /\ UNCHANGED norm_data1
       ELSE pc' = "done" /\ norm_data1' = Series(normalize_data(data1.values))
    /\ UNCHANGED <<selection, data1, data2, norm_data2, correlation, page>>

SpecNormalize == InitNormalize /\ [][NormalizeData]_vars

\* -------------------------------------------------------------- claims
FetchFails(outcome) == outcome.kind = "raises" \/ AdjClose \notin outcome.columns
DataOf(i) == IF i = 1 THEN data1 ELSE data2
AssetOf(i) == IF i = 1 THEN asset1 ELSE asset2
HasRows(d) == d.kind = "Series" /\ Index(d.values) # {}
NoData(d) == d = None \/ d = Series(EmptySeries)
Call(a) == <<a, start_date, end_date>>
Shows(e) == \E i \in 1..Len(shown) : shown[i] = e
PricesOf(p) == [i \in 1..Len(p) |-> Num(p[i])]

\* C1: fetch_historical_data never raises: whenever yf.download raised or
\* returned a frame without 'Adj Close', the fetch returned None and issued
\* exactly one st.error naming its ticker (and none otherwise), the run went
\* on to the next statement, and a run with a failed fetch never crashes.
C1_FetchNeverRaises ==
    /\ \A i \in 1..Len(replies) : FetchFails(replies[i]) => DataOf(i) = None
    /\ errors =
         (IF Len(replies) >= 1 /\ FetchFails(replies[1])
             THEN <<calls[1][1]>> ELSE <<>>)
         \o (IF Len(replies) >= 2 /\ FetchFails(replies[2])
             THEN <<calls[2][1]>> ELSE <<>>)
    /\ Len(replies) = 1 => pc = "fetch2"
    /\ pc = "crashed" =>
         /\ Len(replies) = 2
         /\ \A i \in 1..2 : ~FetchFails(replies[i])

C1_Witness ==
    /\ pc = "done"
    /\ replies = <<Raises, Frame({"Close"}, EmptySeries)>>
    /\ data1 = None /\ data2 = None
    /\ errors = <<asset1, asset2>>

\* C2: with a start date after the end date no yf.download call is made.
C2_NoDownloadWhenStartAfterEnd ==
    start_date > end_date => calls = <<>>

\* C3: when the first fetch has rows and the second is None or an empty
\* series, the run ends without an exception, shows the first asset's
\* total return and an error message naming the second asset.
C3_DegradedRunShowsFirstAsset ==
    (RunOver /\ HasRows(data1) /\ NoData(data2)) =>
        /\ pc = "done"
        /\ Shows(metric(<<asset1, "Total Return">>,
                        format2f(ilocLast(normalize_data(data1.values)))))
        /\ asset2 \in Range(errors)

\* C4: a fetched series with no rows never crashes the run, and the run
\* reports it with an error message.
C4_EmptySeriesDoesNotCrash ==
    (RunOver /\ (data1 = Series(EmptySeries) \/ data2 = Series(EmptySeries))) =>
        /\ pc = "done"
        /\ errors # <<>>

\* C5: for a series with rows whose first price s0 is not zero,
\* normalize_data keeps the index, its value at every date is
\* (s[d] / s0) * 100 - 100 (stated over the integers: n / m with
\* n * s0 = m * (100 * s[d] - 100 * s0)), its first value is 0, and
\* [100, 110, 121] gives [0, 10, 21].
C5_NormalizeFormula ==
    (pc = "done" /\ norm_data1 # Unset /\ ilocFirst(data1.values)[1] # 0) =>
        LET s == data1.values
            n == norm_data1.values
            s0 == ilocFirst(s)[1]
        IN  /\ Index(n) = Index(s)
            /\ \A d \in Index(s) :
                /\ n[d][2] > 0
                /\ n[d][1] * s0 = n[d][2] * (100 * s[d][1] - 100 * s0)
            /\ ilocFirst(n) = Num(0)
            /\ s = PricesOf(<<100, 110, 121>>) => n = PricesOf(<<0, 10, 21>>)

C5_Witness ==
    /\ pc = "done"
    /\ data1 = Series(PricesOf(<<100, 110, 121>>))
    /\ norm_data1 = Series(PricesOf(<<0, 10, 21>>))

\* C6: when the two normalized series share fewer than 2 dates, the
\* correlation is NaN, the metric shows it as nan, and no step from the
\* correlation on ends the run with an exception.
C6_InsufficientOverlapIsNaN ==
    /\ (correlation # Unset
          /\ Cardinality(Index(norm_data1.values) \cap Index(norm_data2.values)) < 2)
        => /\ correlation = CorrNaN
           /\ pc \in {"render", "done"}
           /\ pc = "done" =>
                Shows(metric("Correlation Coefficient", FormattedText("nan")))
    /\ pc = "crashed" => correlation = Unset /\ norm_data2 = Unset

C6_Witness ==
    /\ pc = "done"
    /\ HasRows(norm_data1) /\ HasRows(norm_data2)
    /\ Cardinality(Index(norm_data1.values) \cap Index(norm_data2.values)) = 1
    /\ Cardinality(Index(norm_data1.values)) = 2
    /\ Cardinality(Index(norm_data2.values)) = 2
    /\ correlation = CorrNaN

\* C7: the correlation the run computed equals the correlation of the same
\* two series in the other order, NaN included; so for the fetched prices.
C7_CorrelationSymmetric ==
    correlation # Unset =>
        /\ correlation =
             calculate_correlation(norm_data2.values, norm_data1.values)
        /\ calculate_correlation(data1.values, data2.values) =
             calculate_correlation(data2.values, data1.values)

C7_Witness ==
    /\ correlation # Unset
    /\ correlation.sgn = -1
    /\ correlation.sq # Num(1)
    /\ ilocLast(norm_data1.values) # ilocLast(norm_data2.values)

\* C8: in a finished run, a fetch that is None or has no rows means an
\* error message and nothing rendered; anything rendered means both fetches
\* had rows and both series were normalized and correlated.
C8_NoDataMeansErrorAndNothingShown ==
    RunOver =>
        /\ (NoData(data1) \/ NoData(data2)) => errors # <<>> /\ shown = <<>>
        /\ shown # <<>> =>
            /\ HasRows(data1) /\ HasRows(data2)
            /\ norm_data1 # Unset /\ norm_data2 # Unset
            /\ correlation # Unset

\* C9: a run makes exactly two yf.download calls, asset1 then asset2, with
\* the dates selected, each answered once; the second is made whatever the
\* first returned; a new run starts from no data, and what a run holds is
\* what this run's calls returned.
C9_TwoCallsInOrder ==
    /\ pc = "fetch1" => calls = <<>> /\ data1 = Unset /\ data2 = Unset
    /\ pc = "fetch2" => calls = <<Call(asset1)>> /\ data2 = Unset
    /\ pc \notin {"fetch1", "fetch2"} => calls = <<Call(asset1), Call(asset2)>>
    /\ Len(replies) = Len(calls)
    /\ \A i \in 1..Len(replies) :
         DataOf(i) = fetch_historical_data(AssetOf(i), replies[i]).ret

C9_Witness ==
    /\ pc = "done"
    /\ asset1 # asset2
    /\ start_date > end_date
    /\ calls = <<Call(asset1), Call(asset2)>>
    /\ data1 = None /\ HasRows(data2)

\* C10: the region, asset type and asset of each side are keys and a member
\* of EXCHANGES, and every ticker fetched is the asset of its side.
C10_SelectionInCatalog ==
    /\ region1 \in DOMAIN EXCHANGES
    /\ asset_type1 \in DOMAIN EXCHANGES[region1]
    /\ asset1 \in Range(EXCHANGES[region1][asset_type1])
    /\ region2 \in DOMAIN EXCHANGES
    /\ asset_type2 \in DOMAIN EXCHANGES[region2]
    /\ asset2 \in Range(EXCHANGES[region2][asset_type2])
    /\ \A i \in 1..Len(calls) : calls[i][1] = AssetOf(i)

C10_Witness ==
    /\ region1 = "India" /\ asset_type1 = "etfs" /\ asset1 = "CPSEETF.NS"
    /\ region2 = "Europe" /\ asset_type2 = "indices" /\ asset2 = "^N100"
    /\ calls = <<Call("CPSEETF.NS"), Call("^N100")>>

=============================================================================
